---- MODULE Spec2Model ----
(***************************************************************************)
(* Model of src/eda_tools.py: num_variable_analysis(df, item, target_name,  *)
(* target_type, ..., descr_dict, data_info), run from a notebook session    *)
(* (the function uses IPython's display and pyplot's figure registry).      *)
(*                                                                         *)
(* One call is a sequence of steps, one per block of the function body; an *)
(* exception ends the call at the step that raised it.  Calls follow each  *)
(* other in the same session, so pyplot's registry of open figures is the  *)
(* only state that outlives a call.                                        *)
(*                                                                         *)
(* Representation: a missing value (NaN) is the sentinel NA; a correlation *)
(* coefficient is the exact value num / sqrt(den2), or NaN; y limits are   *)
(* kept multiplied by Scale (0.05 = 1/Scale).  bins, color and fontsize    *)
(* only style the artists and are not modelled.                            *)
(***************************************************************************)
EXTENDS Integers, Sequences, FiniteSets, TLC

\* ---------------------------------------------------------------- bounds
MaxRows == 2
MaxCorrRows == 4
MaxOpenFigs == 2

\* ------------------------------------------------------------- constants
NA == -1
Scale == 20
MaxPanels == 3

ColNames == {"a", "b"}
ArgNames == {"a", "b", "zz"}
Vals == {NA, 1, 2}
TargetTypes == {"numeric", "categorical", "ordinal"}

Frames(n) == UNION {[ColNames -> [1..k -> Vals]] : k \in 0..n}

\* the optional lookups: absent (None) or holding an entry for column "a"
Lookups == {[present |-> FALSE, keys |-> {}], [present |-> TRUE, keys |-> {"a"}]}

\* ------------------------------------------------------- pandas helpers
RECURSIVE SumOver(_, _)
SumOver(S, f) ==
    IF S = {} THEN 0
    ELSE LET i == CHOOSE j \in S : TRUE IN f[i] + SumOver(S \ {i}, f)

Defined(col) == {i \in DOMAIN col : col[i] /= NA}

\* Series.max() / Series.min(): missing values skipped, NaN when nothing is left
ColMax(col) ==
    IF Defined(col) = {} THEN NA
    ELSE CHOOSE m \in {col[i] : i \in Defined(col)} :
             \A i \in Defined(col) : col[i] <= m

ColMin(col) ==
    IF Defined(col) = {} THEN NA
    ELSE CHOOSE m \in {col[i] : i \in Defined(col)} :
             \A i \in Defined(col) : col[i] >= m

\* Series.isna().sum()
IsnaSum(col) == Cardinality({i \in DOMAIN col : col[i] = NA})

\* Series.describe(): count, sum (for the mean), min, max over the defined values
Describe(col) ==
    [count |-> Cardinality(Defined(col)),
     sum   |-> SumOver(Defined(col), col),
     min   |-> ColMin(col),
     max   |-> ColMax(col)]

\* Series.unique(): the distinct values in order of first appearance; all
\* missing values are one value
RECURSIVE UniqueFrom(_, _, _)
UniqueFrom(col, i, acc) ==
    IF i > Len(col) THEN acc
    ELSE IF \E j \in 1..Len(acc) : acc[j] = col[i]
         THEN UniqueFrom(col, i + 1, acc)
         ELSE UniqueFrom(col, i + 1, Append(acc, col[i]))

Unique(col) == UniqueFrom(col, 1, <<>>)

\* df[df[target_name] == v]: the rows whose target equals v; NaN == NaN is False
RowsEqual(col, v) == {i \in DOMAIN col : col[i] /= NA /\ v /= NA /\ col[i] = v}

\* ------------------------------------------- DataFrame.corr (lines 124-125)
NaNCoef == [nan |-> TRUE, num |-> 0, den2 |-> 0]

\* a row takes part in the coefficient only if both values are defined
MaskItemOnly(x, y, i) == x[i] /= NA

Mask(x, y, i) == x[i] /= NA /\ y[i] /= NA

\* the accumulation loop over the rows of the two columns
RECURSIVE CorrAcc(_, _, _, _)
CorrAcc(x, y, i, s) ==
    IF i > Len(x) THEN s
    ELSE IF Mask(x, y, i)
         THEN CorrAcc(x, y, i + 1,
                      [n   |-> s.n + 1,
                       sx  |-> s.sx + x[i],
                       sy  |-> s.sy + y[i],
                       sxx |-> s.sxx + x[i] * x[i],
                       syy |-> s.syy + y[i] * y[i],
                       sxy |-> s.sxy + x[i] * y[i]])
         ELSE CorrAcc(x, y, i + 1, s)

\* covariance over the square root of the product of the two sums of squared
\* deviations; NaN when no row is left or when that divisor is zero
NanCorr(x, y) ==
    LET s  == CorrAcc(x, y, 1, [n |-> 0, sx |-> 0, sy |-> 0,
                                sxx |-> 0, syy |-> 0, sxy |-> 0])
        dx == s.n * s.sxx - s.sx * s.sx
        dy == s.n * s.syy - s.sy * s.sy
    IN  IF s.n < 1 THEN NaNCoef
        ELSE IF dx * dy = 0 THEN NaNCoef
        ELSE [nan |-> FALSE, num |-> s.n * s.sxy - s.sx * s.sy, den2 |-> dx * dy]

\* average ranks (doubled, to stay integral) among the rows of M
Rank2(col, M) ==
    [i \in DOMAIN col |->
        IF i \in M
        THEN 2 * Cardinality({j \in M : col[j] < col[i]})
             + Cardinality({j \in M : col[j] = col[i]}) + 1
        ELSE NA]

\* .corr(): Pearson's coefficient of two columns
PearsonCorr(x, y) == NanCorr(x, y)

\* .corr(method='spearman'): Pearson's coefficient of the ranks of the rows
\* that take part
SpearmanCorr(x, y) ==
    LET M == {i \in DOMAIN x : Mask(x, y, i)}
    IN  NanCorr(Rank2(x, M), Rank2(y, M))

\* ------------------------------------------------------------------ state
VARIABLES
    df,        \* the dataset: column name -> sequence of values
    args,      \* the arguments of the current call
    pc,        \* position in the function body
    nx,        \* number of panels of the call's figure (0 before line 62)
    ylim,      \* (y_min, y_max), times Scale
    result,    \* the value to return
    err,       \* the exception that ended the call, "none" otherwise
    out,       \* the output stream of the current call: prints, displays, figures
    reads,     \* the columns of df the current call has read
    openFigs,  \* pyplot's registry of open figures (their numbers)
    axes,      \* artists drawn on each panel of the figure the call created
    curAx      \* current axes of that figure (panel index), 0 when there is none

vars == <<df, args, pc, nx, ylim, result, err, out, reads, openFigs, axes, curAx>>

None == [none |-> TRUE, pearson |-> NaNCoef, spearman |-> NaNCoef]
NoLim == [nan |-> TRUE, lo |-> 0, hi |-> 0]
NoAxes == [k \in 1..MaxPanels |-> <<>>]
NoArgs == [item |-> "a", target_name |-> "a", target_type |-> "numeric",
           descr_dict |-> [present |-> FALSE, keys |-> {}],
           data_info |-> [present |-> FALSE, keys |-> {}]]

AllArgs ==
    [item : ArgNames, target_name : ArgNames, target_type : TargetTypes,
     descr_dict : Lookups, data_info : Lookups]

\* calls on two distinct columns of the dataset with a valid target type
PairArgs ==
    {a \in AllArgs : /\ a.item \in ColNames /\ a.target_name \in ColNames
                     /\ a.item /= a.target_name
                     /\ a.target_type \in {"numeric", "categorical"}
                     /\ ~a.descr_dict.present /\ ~a.data_info.present}

Start ==
    /\ args = NoArgs
    /\ pc = "idle"
    /\ nx = 0
    /\ ylim = NoLim
    /\ result = None
    /\ err = "none"
    /\ out = <<>>
    /\ reads = {}
    /\ openFigs = <<>>
    /\ axes = NoAxes
    /\ curAx = 0

Init == df \in Frames(MaxRows) /\ Start

InitCorr == df \in Frames(MaxCorrRows) /\ Start

\* the caller invokes num_variable_analysis(df, item, target_name, target_type, ...)
Enter(a) ==
    /\ pc = "idle"
    /\ Len(openFigs) < MaxOpenFigs
    /\ args' = a
    /\ pc' = "validate"
    /\ UNCHANGED <<df, nx, ylim, result, err, out, reads, openFigs, axes, curAx>>

Call == \E a \in AllArgs : Enter(a)

CallPair == \E a \in PairArgs : Enter(a)

\* a check that lets every target_type through
AnyType(t) == TRUE

\* lines 59-60: assert target_type in ['numeric', 'categorical']
ValidType(t) == t \in {"numeric", "categorical"}

Validate ==
    /\ pc = "validate"
    /\ IF ValidType(args.target_type)
       THEN pc' = "subplots" /\ err' = err
       ELSE pc' = "raised" /\ err' = "AssertionError"
    /\ UNCHANGED <<df, args, nx, ylim, result, out, reads, openFigs, axes, curAx>>

\* lines 62-65: the layout
Layout(item, target_name) == IF item /= target_name THEN 3 ELSE 2

\* lines 62-69: nx, result = None, fig, axes = plt.subplots(1, nx, ...): a new
\* figure with the next free number joins the registry and becomes current
Subplots ==
    /\ pc = "subplots"
    /\ nx' = Layout(args.item, args.target_name)
    /\ result' = None
    /\ openFigs' = Append(openFigs, Len(openFigs) + 1)
    /\ axes' = NoAxes
    /\ curAx' = nx'
    /\ pc' = "range"
    /\ UNCHANGED <<df, args, ylim, err, out, reads>>

\* lines 70-72: y_min and y_max, 5% of the range of item beyond its minimum
\* and maximum; NaN when item has no defined value
YLim(col) ==
    IF ColMax(col) = NA THEN NoLim
    ELSE LET item_range == ColMax(col) - ColMin(col)
         IN  [nan |-> FALSE,
              lo  |-> Scale * ColMin(col) - item_range,
              hi  |-> Scale * ColMax(col) + item_range]

\* the lookup of item under a blanket handler that gives up and returns None
ItemRangeSwallowed ==
    /\ pc = "range"
    /\ IF args.item \in ColNames
       THEN /\ ylim' = YLim(df[args.item])
            /\ reads' = reads \cup {args.item}
            /\ pc' = "fig1"
       ELSE /\ pc' = "returned"
            /\ UNCHANGED <<ylim, reads>>
    /\ UNCHANGED <<df, args, nx, result, err, out, openFigs, axes, curAx>>

\* lines 70-72: item_range, y_min, y_max; df[item] raises KeyError for an
\* unknown column
ItemRange ==
    /\ pc = "range"
    /\ IF args.item \in ColNames
       THEN /\ ylim' = YLim(df[args.item])
            /\ reads' = reads \cup {args.item}
            /\ pc' = "fig1" /\ err' = err
       ELSE /\ pc' = "raised" /\ err' = "KeyError"
            /\ UNCHANGED <<ylim, reads>>
    /\ UNCHANGED <<df, args, nx, result, out, openFigs, axes, curAx>>

\* plt.subplot(1, nx, k) makes panel k current; the artists that follow go there
OnPanel(ax, k, artists) == [ax EXCEPT ![k] = @ \o artists]

\* lines 74-79: histogram of item on panel 1; plt.ylim rejects NaN limits
\* with ValueError, after the histogram was drawn
Fig1 ==
    /\ pc = "fig1"
    /\ curAx' = 1
    /\ IF ylim.nan
       THEN /\ axes' = OnPanel(axes, 1, <<[op |-> "histplot"]>>)
            /\ pc' = "raised" /\ err' = "ValueError"
       ELSE /\ axes' = OnPanel(axes, 1, <<[op |-> "histplot"], [op |-> "ylim"],
                                          [op |-> "xticks"], [op |-> "title"]>>)
            /\ pc' = "fig2" /\ err' = err
    /\ UNCHANGED <<df, args, nx, ylim, result, out, reads, openFigs>>

\* lines 81-90: boxenplot of item on panel 2, one box for a numeric target,
\* one per target value for a categorical one (df[target_name] is read)
Fig2 ==
    /\ pc = "fig2"
    /\ curAx' = 2
    /\ IF args.target_type = "numeric"
       THEN /\ axes' = OnPanel(axes, 2, <<[op |-> "boxenplot"], [op |-> "ylim"],
                                          [op |-> "ylabel"], [op |-> "title"]>>)
            /\ pc' = "fig3" /\ err' = err
            /\ reads' = reads \cup {args.item}
       ELSE IF args.target_name \in ColNames
       THEN /\ axes' = OnPanel(axes, 2, <<[op |-> "boxenplot"], [op |-> "xticks"],
                                          [op |-> "ylim"], [op |-> "ylabel"],
                                          [op |-> "title"]>>)
            /\ pc' = "fig3" /\ err' = err
            /\ reads' = reads \cup {args.item, args.target_name}
       ELSE /\ pc' = "raised" /\ err' = "KeyError"
            /\ UNCHANGED <<axes, reads>>
    /\ UNCHANGED <<df, args, nx, ylim, result, out, openFigs>>

\* lines 101-107: one kdeplot per value of df[target_name].unique(), drawn from
\* the rows df[target_name] == value and labelled with the value and the
\* number of those rows; title and legend are set again after each curve
RECURSIVE KdeCurves(_, _, _)
KdeCurves(target, values, i) ==
    IF i > Len(values) THEN <<>>
    ELSE <<[op |-> "kdeplot", value |-> values[i],
            rows |-> RowsEqual(target, values[i]),
            count |-> Cardinality(RowsEqual(target, values[i]))],
           [op |-> "title"], [op |-> "legend"]>>
         \o KdeCurves(target, values, i + 1)

\* panel 3 drawn whatever the layout
DrawsThirdAlways(item, target_name) == TRUE

\* lines 92-108: panel 3, only when item differs from target_name: a scatter
\* plot for a numeric target, the density curves for a categorical one
DrawsThird(item, target_name) == item /= target_name

Fig3 ==
    /\ pc = "fig3"
    /\ IF DrawsThird(args.item, args.target_name)
       THEN /\ curAx' = 3
            /\ IF args.target_name \in ColNames
               THEN /\ axes' = OnPanel(axes, 3,
                          IF args.target_type = "numeric"
                          THEN <<[op |-> "plot"], [op |-> "xticks"], [op |-> "ylim"]>>
                          ELSE KdeCurves(df[args.target_name],
                                         Unique(df[args.target_name]), 1)
                               \o <<[op |-> "ylim"]>>)
                    /\ reads' = reads \cup {args.item, args.target_name}
                    /\ pc' = "describe" /\ err' = err
               ELSE /\ pc' = "raised" /\ err' = "KeyError"
                    /\ UNCHANGED <<axes, reads>>
       ELSE /\ pc' = "describe"
            /\ UNCHANGED <<curAx, axes, reads, err>>
    /\ UNCHANGED <<df, args, nx, ylim, result, out, openFigs>>

\* the count printed after the row as well (finally instead of except)
InfoAndMissing(table, item, col) ==
    (IF table.present /\ item \in table.keys
     THEN <<[op |-> "display", what |-> "info_row", v |-> 0]>>
     ELSE <<>>)
    \o <<[op |-> "print", what |-> "missing", v |-> IsnaSum(col)]>>

\* lines 113-116: try display(data_info.loc[item, :]) except: print the
\* number of missing values.  Any failure of the lookup (data_info is None,
\* no row labelled item) lands in the handler
HasRow(table, item) == table.present /\ item \in table.keys

InfoOrMissing(table, item, col) ==
    IF HasRow(table, item)
    THEN <<[op |-> "display", what |-> "info_row", v |-> 0]>>
    ELSE <<[op |-> "print", what |-> "missing", v |-> IsnaSum(col)]>>

\* lines 110-119: the header, the info row or the missing-value count, the
\* statistics
Describer ==
    /\ pc = "describe"
    /\ out' = out \o <<[op |-> "print", what |-> "header", v |-> 0]>>
                  \o InfoOrMissing(args.data_info, args.item, df[args.item])
                  \o <<[op |-> "print", what |-> "statistics", v |-> 0],
                       [op |-> "display", what |-> "describer",
                        v |-> Describe(df[args.item])]>>
    /\ reads' = reads \cup {args.item}
    /\ pc' = "corr"
    /\ UNCHANGED <<df, args, nx, ylim, result, err, openFigs, axes, curAx>>

\* the coefficients computed for every numeric target, item itself included
CorrelatesNumeric(item, target_name, target_type) == target_type = "numeric"

\* line 122-123: the coefficients are computed for a numeric target that is
\* not the item itself
Correlates(item, target_name, target_type) ==
    item /= target_name /\ target_type = "numeric"

\* lines 121-132: both coefficients, printed, returned and written into the
\* title of the current axes
Correlation ==
    /\ pc = "corr"
    /\ IF Correlates(args.item, args.target_name, args.target_type)
       THEN LET pearson_coeff  == PearsonCorr(df[args.item], df[args.target_name])
                spearman_coeff == SpearmanCorr(df[args.item], df[args.target_name])
            IN  /\ out' = out \o <<[op |-> "print", what |-> "correlation", v |-> 0],
                                   [op |-> "print", what |-> "pearson",
                                    v |-> pearson_coeff],
                                   [op |-> "print", what |-> "spearman",
                                    v |-> spearman_coeff]>>
                /\ result' = [none |-> FALSE, pearson |-> pearson_coeff,
                              spearman |-> spearman_coeff]
                /\ axes' = OnPanel(axes, curAx, <<[op |-> "corr_title"]>>)
                /\ reads' = reads \cup {args.item, args.target_name}
       ELSE UNCHANGED <<out, result, axes, reads>>
    /\ pc' = "show"
    /\ UNCHANGED <<df, args, nx, ylim, err, openFigs, curAx>>

\* plt.show(): every figure of the registry is displayed and released
ShownFigures(figs) == [i \in 1..Len(figs) |-> [op |-> "figure", what |-> "figure",
                                              v |-> figs[i]]]

\* line 134
Show ==
    /\ pc = "show"
    /\ out' = out \o ShownFigures(openFigs)
    /\ openFigs' = <<>>
    /\ curAx' = 0
    /\ pc' = "conclusion"
    /\ UNCHANGED <<df, args, nx, ylim, result, err, reads, axes>>

\* the label printed even when the lookup gives nothing (descr_dict.get(item))
ConclusionAlways(dict, item) ==
    <<[op |-> "print", what |-> "conclusion", v |-> 0]>>

\* lines 136-139: descr_dict[item] is evaluated before print is called, so a
\* failed lookup prints nothing
ConclusionLine(dict, item) ==
    IF dict.present /\ item \in dict.keys
    THEN <<[op |-> "print", what |-> "conclusion", v |-> 0]>>
    ELSE <<>>

\* lines 136-140
Conclusion ==
    /\ pc = "conclusion"
    /\ out' = out \o ConclusionLine(args.descr_dict, args.item)
                  \o <<[op |-> "print", what |-> "blank", v |-> 0]>>
    /\ pc' = "return"
    /\ UNCHANGED <<df, args, nx, ylim, result, err, reads, openFigs, axes, curAx>>

\* line 142
Return ==
    /\ pc = "return"
    /\ pc' = "returned"
    /\ UNCHANGED <<df, args, nx, ylim, result, err, out, reads, openFigs, axes, curAx>>

\* the call is over (line 142, or an exception left the function): its frame
\* is dropped and the caller goes on; the registry of figures stays as it is
Leave ==
    /\ pc \in {"returned", "raised"}
    /\ pc' = "idle"
    /\ args' = NoArgs
    /\ nx' = 0
    /\ ylim' = NoLim
    /\ result' = None
    /\ err' = "none"
    /\ out' = <<>>
    /\ reads' = {}
    /\ axes' = NoAxes
    /\ curAx' = 0
    /\ UNCHANGED <<df, openFigs>>

Steps ==
    \/ Validate
    \/ Subplots
    \/ ItemRange
    \/ Fig1
    \/ Fig2
    \/ Fig3
    \/ Describer
    \/ Correlation
    \/ Show
    \/ Conclusion
    \/ Return
    \/ Leave

Next == Call \/ Steps

Spec == Init /\ [][Next]_vars

NextCorr == CallPair \/ Steps

SpecCorr == InitCorr /\ [][NextCorr]_vars

\* ---------------------------------------------------------------- claims
Tokens(stream, what) == {i \in 1..Len(stream) : stream[i].what = what}

Printed(what) == Tokens(out, what) /= {}

ReportKinds == {"header", "info_row", "missing", "statistics", "describer",
                "correlation", "pearson", "spearman"}

PastDescribe == pc \in {"corr", "show", "conclusion", "return", "returned"}

\* C1: a call whose target_type is neither 'numeric' nor 'categorical' ends at
\* the assertion with AssertionError and has done nothing before: no figure
\* joined the registry, nothing was drawn or printed, no column was read.
C1_InvalidTypeFailsFast ==
    [][~(args'.target_type \in {"numeric", "categorical"}) =>
          /\ pc' \in {"validate", "raised"}
          /\ (pc = "validate" => pc' = "raised" /\ err' = "AssertionError")
          /\ openFigs' = openFigs
          /\ out' = <<>> /\ reads' = {} /\ axes' = NoAxes /\ nx' = 0]_vars

C1_Witness ==
    /\ pc = "raised" /\ err = "AssertionError"
    /\ args.target_type = "ordinal" /\ args.item \in ColNames
    /\ Len(df[args.item]) > 0

\* C3: when item equals target_name or the target is categorical, no
\* coefficient is computed, printed or written into a title, and the value
\* to return is None.
C3_NoCorrelationOtherwise ==
    (args.item = args.target_name \/ args.target_type = "categorical") =>
        /\ result = None
        /\ ~Printed("correlation") /\ ~Printed("pearson") /\ ~Printed("spearman")
        /\ \A k \in 1..MaxPanels : \A i \in 1..Len(axes[k]) :
               axes[k][i].op /= "corr_title"

C3_Witness ==
    /\ pc = "returned" /\ result = None
    /\ args.item = args.target_name /\ args.target_type = "numeric"
    /\ Cardinality(Defined(df[args.item])) = 2

\* C4: once the report is printed, exactly one of the two outcomes happened:
\* data_info has a row for item, the row is displayed and no count is printed;
\* or it has none (or is absent), nothing is displayed from it, no error is
\* raised and the count printed is the number of undefined entries of item.
C4_MissingFallback ==
    PastDescribe =>
        /\ err = "none"
        /\ IF args.data_info.present /\ args.item \in args.data_info.keys
           THEN /\ Cardinality(Tokens(out, "info_row")) = 1
                /\ Tokens(out, "missing") = {}
           ELSE /\ Tokens(out, "info_row") = {}
                /\ Cardinality(Tokens(out, "missing")) = 1
                /\ \A i \in Tokens(out, "missing") :
                       out[i].v = Len(df[args.item])
                                  - Cardinality(Defined(df[args.item]))

C4_Witness ==
    /\ pc = "returned"
    /\ args.data_info.present /\ ~(args.item \in args.data_info.keys)
    /\ \E i \in Tokens(out, "missing") : out[i].v = 1

\* C5: a conclusion line is printed exactly when descr_dict has an entry for
\* item, once, after every line of the report and after the figure was
\* displayed; without an entry nothing of it is printed and the call returns.
C5_ConclusionAfterReport ==
    /\ Tokens(out, "conclusion") /= {} =>
           /\ args.descr_dict.present /\ args.item \in args.descr_dict.keys
           /\ Cardinality(Tokens(out, "conclusion")) = 1
           /\ Tokens(out, "figure") /= {}
           /\ \A c \in Tokens(out, "conclusion") : \A i \in 1..Len(out) :
                  out[i].what \in ReportKinds \cup {"figure"} => i < c
    /\ pc \in {"return", "returned"} =>
           /\ err = "none"
           /\ (args.descr_dict.present /\ args.item \in args.descr_dict.keys)
                  => Tokens(out, "conclusion") /= {}

C5_Witness ==
    /\ pc = "returned"
    /\ Tokens(out, "conclusion") /= {}
    /\ Printed("pearson")

\* C6: the figure has 3 panels when item differs from target_name and 2
\* otherwise; nothing is drawn on a panel beyond the layout, the current axes
\* stay within it, and the correlation title lands on panel 3 only.
C6_PanelsWithinLayout ==
    nx /= 0 =>
        /\ nx = (IF args.item /= args.target_name THEN 3 ELSE 2)
        /\ \A k \in 1..MaxPanels : k > nx => axes[k] = <<>>
        /\ curAx <= nx
        /\ (axes[3] /= <<>> => args.item /= args.target_name)
        /\ \A k \in 1..MaxPanels : \A i \in 1..Len(axes[k]) :
               axes[k][i].op = "corr_title" => k = 3

C6_Witness ==
    /\ pc = "returned" /\ nx = 3
    /\ \E i \in 1..Len(axes[3]) : axes[3][i].op = "corr_title"

\* C7: a call changes neither the dataset nor its arguments, and when it is
\* over (returned or raised) its only effects are printed text and at most
\* one displayed figure: nothing of it is left in pyplot's registry.
C7_NoEffectBeyondOutput ==
    [][/\ df' = df
       /\ (pc \notin {"idle", "returned", "raised"} => args' = args)
       /\ (pc' \in {"returned", "raised"} =>
              /\ openFigs' = <<>>
              /\ Cardinality(Tokens(out', "figure")) <= 1)]_vars

\* C8: every call that returns has displayed exactly one figure, whatever the
\* calls before it did.
C8_OneFigurePerCall ==
    pc = "returned" => Cardinality(Tokens(out, "figure")) = 1

\* the rows on which both columns are defined
Complete(x, y) == {i \in DOMAIN x : x[i] /= NA /\ y[i] /= NA}

\* the coefficient num / sqrt(den2) of the deviations from the mean (times
\* the number of rows) over the rows of C
CoefOver(u, v, C) ==
    LET n  == Cardinality(C)
        du == [i \in C |-> n * u[i] - SumOver(C, u)]
        dv == [i \in C |-> n * v[i] - SumOver(C, v)]
    IN  [num  |-> SumOver(C, [i \in C |-> du[i] * dv[i]]),
         den2 |-> SumOver(C, [i \in C |-> du[i] * du[i]])
                  * SumOver(C, [i \in C |-> dv[i] * dv[i]])]

\* lowest plus highest rank of a value among the rows of C (twice its
\* average rank)
TwiceAvgRank(u, C) ==
    [i \in C |-> (Cardinality({j \in C : u[j] < u[i]}) + 1)
                 + Cardinality({j \in C : u[j] <= u[i]})]

ConstantOn(u, C) == \A i, j \in C : u[i] = u[j]

RECURSIVE Gcd(_, _)
Gcd(m, n) == IF n = 0 THEN m ELSE Gcd(n, m % n)

\* the square of num / sqrt(den2) as a fraction in lowest terms
Square(c) ==
    LET g == Gcd(c.num * c.num, c.den2)
    IN  <<(c.num * c.num) \div g, c.den2 \div g>>

\* two coefficients are the same number: same sign, same square
SameCoef(c, r) ==
    /\ (c.num > 0) = (r.num > 0)
    /\ (c.num < 0) = (r.num < 0)
    /\ Square(c) = Square(r)

Within(c) == c.den2 > 0 /\ c.num * c.num <= c.den2

ReturnedPair ==
    /\ pc = "returned"
    /\ args.item /= args.target_name
    /\ args.target_type = "numeric"

\* C2 (as stated): a call on two distinct columns with a numeric target that
\* returns yields two coefficients, each a number of [-1, 1].
C2_AlwaysWithinRange ==
    ReturnedPair =>
        /\ ~result.none
        /\ ~result.pearson.nan /\ Within(result.pearson)
        /\ ~result.spearman.nan /\ Within(result.spearman)

\* C2 (amended): such a call yields a pair whose components are both NaN
\* exactly when, over the rows where both columns are defined, item or the
\* target is constant (in particular when fewer than two such rows exist);
\* otherwise each lies in [-1, 1] and is the Pearson (Spearman) coefficient
\* of the two columns over those rows only.
C2_PairwiseCompleteOrNaN ==
    ReturnedPair =>
        LET x == df[args.item]
            y == df[args.target_name]
            C == Complete(x, y)
            degenerate == ConstantOn(x, C) \/ ConstantOn(y, C)
        IN  /\ ~result.none
            /\ result.pearson.nan = degenerate
            /\ result.spearman.nan = degenerate
            /\ ~degenerate =>
                   /\ Within(result.pearson)
                   /\ Within(result.spearman)
                   /\ SameCoef(result.pearson, CoefOver(x, y, C))
                   /\ SameCoef(result.spearman,
                               CoefOver(TwiceAvgRank(x, C), TwiceAvgRank(y, C), C))

C2_Witness ==
    /\ ReturnedPair
    /\ ~result.pearson.nan
    /\ result.pearson.num * result.pearson.num < result.pearson.den2
    /\ Complete(df[args.item], df[args.target_name]) /= DOMAIN df[args.item]

Unresolvable ==
    /\ args.target_type \in {"numeric", "categorical"}
    /\ (args.item \notin ColNames \/ args.target_name \notin ColNames)

NeverReturns ==
    /\ out = <<>>
    /\ args.item \notin ColNames => pc \in {"validate", "subplots", "range", "raised"}
    /\ pc \in {"validate", "subplots", "range", "fig1", "fig2", "fig3", "raised"}

KdeCounts(panel) ==
    [i \in 1..Len(panel) |-> IF panel[i].op = "kdeplot" THEN panel[i].count ELSE 0]

\* C10: with a categorical target other than item, panel 3 holds one density
\* curve per distinct target value, each legended with the number of rows of
\* its category, and these counts add up to the number of rows of the dataset.
C10_LegendCountsCoverRows ==
    (pc = "describe" /\ args.target_type = "categorical"
                     /\ args.item /= args.target_name) =>
        LET target == df[args.target_name]
            curves == {i \in 1..Len(axes[3]) : axes[3][i].op = "kdeplot"}
        IN  /\ Cardinality(curves) = Cardinality({target[i] : i \in DOMAIN target})
            /\ \A c \in curves :
                   axes[3][c].count =
                       Cardinality({i \in DOMAIN target : target[i] = axes[3][c].value})
            /\ SumOver(curves, KdeCounts(axes[3])) = Len(target)

====
